---------------------------- MODULE Spec2Model ----------------------------
(***************************************************************************)
(* Model of the chart updater: the deep-merge primitive, the rule engine   *)
(* (modifier.applyModifications), manifest filtering and the per-release   *)
(* transformation pipeline run by UpdateMode.                              *)
(*                                                                         *)
(* A YAML value (Go `any`) is a record with a tag t: "s" (scalar, text in  *)
(* s), "m" (mapping, a function from keys to values in m) or "n" (null).   *)
(* A document or an overlay (Go map[string]any) is a function from keys to *)
(* such values.                                                            *)
(***************************************************************************)
EXTENDS Integers, Sequences, FiniteSets, TLC

NoMap == [k \in {} |-> FALSE]

Scalar(str) == [t |-> "s", s |-> str, m |-> NoMap]

Mapping(f) == [t |-> "m", s |-> "", m |-> f]

Null == [t |-> "n", s |-> "", m |-> NoMap]

\* v.(map[string]any) succeeds
IsMap(v) == v.t = "m"

(***************************************************************************)
(* common.DeepMerge                                                        *)
(***************************************************************************)
RECURSIVE DeepMergeKnownKeys(_, _)
\* DeepMerge without the branch that adds the keys only second has
DeepMergeKnownKeys(first, second) ==
    [k \in DOMAIN first |->
        IF k \notin DOMAIN second THEN first[k]
        ELSE IF IsMap(first[k]) /\ IsMap(second[k])
             THEN Mapping(DeepMergeKnownKeys(first[k].m, second[k].m))
             ELSE second[k]]

RECURSIVE DeepMergeFirstWins(_, _)
\* DeepMerge that keeps the first operand's value on a conflict
DeepMergeFirstWins(first, second) ==
    [k \in (DOMAIN first) \cup (DOMAIN second) |->
        IF k \notin DOMAIN second THEN first[k]
        ELSE IF k \notin DOMAIN first THEN second[k]
        ELSE IF IsMap(first[k]) /\ IsMap(second[k])
             THEN Mapping(DeepMergeFirstWins(first[k].m, second[k].m))
             ELSE first[k]]

RECURSIVE DeepMerge(_, _)
\* out starts as a copy of first; every key of second is then merged into it
DeepMerge(first, second) ==
    [k \in (DOMAIN first) \cup (DOMAIN second) |->
        IF k \notin DOMAIN second THEN first[k]
        ELSE IF k \in DOMAIN first
             THEN IF IsMap(first[k]) /\ IsMap(second[k])
                  THEN Mapping(DeepMerge(first[k].m, second[k].m))
                  ELSE second[k]
             ELSE second[k]]

(***************************************************************************)
(* Kind patterns (regexp.Compile, Regexp.MatchString).  The patterns a     *)
(* release declares and the kinds they match, as the regexp package        *)
(* decides them; "[" does not compile.                                     *)
(***************************************************************************)
RegexCompiles(pattern) == pattern # "["

MatchString(pattern, kind) ==
    CASE pattern = "A" -> kind \in {"A"}
      [] pattern = "B" -> kind \in {"B"}
      [] pattern = "Custom" -> kind \in {"CustomResourceDefinition"}
      [] OTHER -> FALSE

\* m[common.Kind].(string): the kind and whether the assertion succeeded
HasStringKind(manifest) ==
    "kind" \in DOMAIN manifest /\ manifest["kind"].t = "s"

KindOf(manifest) == manifest["kind"].s

(***************************************************************************)
(* The yq evaluator (yqlib.Evaluator.EvaluateNodes) on the one candidate   *)
(* node applyModifications decodes from the manifest.                      *)
(***************************************************************************)
\* the keys of documents in the order yaml.Marshal emits them (sorted)
KeyOrder == <<"cfg", "kind", "ns", "spec", "x">>

Put(f, k, v) == [j \in (DOMAIN f) \cup {k} |-> IF j = k THEN v ELSE f[j]]

RECURSIVE Traverse(_, _)
\* the nodes a path matches under node v: a missing key yields one null node,
\* a path through a scalar yields no node
Traverse(v, path) ==
    IF path = <<>> THEN <<v>>
    ELSE CASE v.t = "m" ->
                 IF Head(path) \in DOMAIN v.m
                 THEN Traverse(v.m[Head(path)], Tail(path))
                 ELSE Traverse(Null, Tail(path))
           [] v.t = "n" -> Traverse(Null, Tail(path))
           [] OTHER -> <<>>

RECURSIVE ChildrenFrom(_, _)
ChildrenFrom(f, i) ==
    IF i > Len(KeyOrder) THEN <<>>
    ELSE (IF KeyOrder[i] \in DOMAIN f THEN <<f[KeyOrder[i]]>> ELSE <<>>)
         \o ChildrenFrom(f, i + 1)

\* the splat `[]`: every child of a mapping, nothing for a scalar or null
Splat(v) == IF v.t = "m" THEN ChildrenFrom(v.m, 1) ELSE <<>>

\* a value selector: [ok, nodes]; ok is FALSE when the selector does not parse
EvaluateSelector(sel, candid) ==
    IF sel.bad THEN [ok |-> FALSE, nodes |-> <<>>]
    ELSE LET hit == Traverse(candid, sel.path)
         IN  [ok |-> TRUE,
              nodes |-> IF ~sel.splat THEN hit
                        ELSE IF hit = <<>> THEN <<>> ELSE Splat(hit[1])]

RECURSIVE Assign(_, _, _)
\* v with val stored at path, creating the mappings on the way; a path
\* through a scalar matches nothing and leaves v as it is
Assign(v, path, val) ==
    IF path = <<>> THEN val
    ELSE CASE v.t = "m" ->
                 Mapping(Put(v.m, Head(path),
                             Assign(IF Head(path) \in DOMAIN v.m
                                    THEN v.m[Head(path)] ELSE Null,
                                    Tail(path), val)))
           [] v.t = "n" ->
                 Mapping(Put(NoMap, Head(path), Assign(Null, Tail(path), val)))
           [] OTHER -> v

\* an expression on the candidate node: [ok, nodes, candid].  An update
\* (`path |= "text"`) changes the candidate node itself and returns it; a
\* path expression returns the nodes it matches and changes nothing.
EvaluateExpression(expr, candid) ==
    CASE expr.op = "assign" ->
             LET updated == Assign(candid, expr.target, Scalar(expr.text))
             IN  [ok |-> TRUE, nodes |-> <<updated>>, candid |-> updated]
      [] expr.op = "path" ->
             [ok |-> TRUE, nodes |-> Traverse(candid, expr.target), candid |-> candid]
      [] OTHER ->
             [ok |-> FALSE, nodes |-> <<>>, candid |-> candid]

\* common.ValuesRegexCompiled.FindAllStringSubmatch(expression, -1): the
\* captured dotted path of every `.Values` placeholder, left to right
FindAllValuesPaths(expr) ==
    LET RECURSIVE From(_)
        From(i) == IF i > Len(expr.refs) THEN <<>>
                   ELSE (IF expr.refs[i].values THEN <<expr.refs[i].dotted>> ELSE <<>>)
                        \o From(i + 1)
    IN  From(1)

\* strings.Split(underPath, ".")
SplitDots(dotted) ==
    CASE dotted = "p.q" -> <<"p", "q">>
      [] dotted = "p" -> <<"p">>
      [] dotted = "r" -> <<"r">>
      [] OTHER -> <<dotted>>

(***************************************************************************)
(* modifier.wrapResult, modifier.resultToMap, modifier.applyModifications  *)
(***************************************************************************)
RECURSIVE NestFrom(_, _, _)
\* for i from the last segment down to the first: e = {path[i]: e}
NestFrom(path, i, e) ==
    IF i < 1 THEN e
    ELSE NestFrom(path, i - 1, Mapping(Put(NoMap, path[i], e)))

RECURSIVE NestReversedFrom(_, _, _)
\* wraps from the first segment up to the last: the first segment ends
\* nearest the value
NestReversedFrom(path, i, e) ==
    IF i > Len(path) THEN e
    ELSE NestReversedFrom(path, i + 1, Mapping(Put(NoMap, path[i], e)))

wrapResultReversed(nodes, underPath) ==
    IF Len(nodes) # 1 THEN [status |-> "error", map |-> NoMap]
    ELSE IF nodes[1].t = "n" THEN [status |-> "ok", map |-> NoMap]
    ELSE [status |-> "ok",
          map |-> NestReversedFrom(SplitDots(underPath), 1, nodes[1]).m]

\* [status, map]: the matched node nested under the segments of underPath
wrapResult(nodes, underPath) ==
    IF Len(nodes) # 1 THEN [status |-> "error", map |-> NoMap]
    ELSE IF nodes[1].t = "n" THEN [status |-> "ok", map |-> NoMap]
    ELSE LET path == SplitDots(underPath)
         IN  [status |-> "ok", map |-> NestFrom(path, Len(path), nodes[1]).m]

\* decodeResult[*map[string]any] and the dereference of its result: no node
\* or a null node decodes to a nil pointer, a scalar does not decode
resultToMap(nodes) ==
    IF nodes = <<>> \/ nodes[1].t = "n" THEN [status |-> "panic", map |-> NoMap]
    ELSE IF nodes[1].t = "s" THEN [status |-> "error", map |-> NoMap]
    ELSE [status |-> "ok", map |-> nodes[1].m]

GateIgnoringReject(manifest, mod) ==
    IF mod.Kind # "" /\ ~RegexCompiles(mod.Kind) THEN "error"
    ELSE IF mod.Kind # "" /\ (~HasStringKind(manifest)
                              \/ ~MatchString(mod.Kind, KindOf(manifest)))
    THEN "skip"
    ELSE IF mod.Reject # "" /\ ~RegexCompiles(mod.Reject) THEN "error"
    ELSE "apply"

\* the two kind gates of one rule, tested on the manifest as it was passed in
Gate(manifest, mod) ==
    IF mod.Kind # "" /\ ~RegexCompiles(mod.Kind) THEN "error"
    ELSE IF mod.Kind # "" /\ (~HasStringKind(manifest)
                              \/ ~MatchString(mod.Kind, KindOf(manifest)))
    THEN "skip"
    ELSE IF mod.Reject # "" /\ ~RegexCompiles(mod.Reject) THEN "error"
    ELSE IF mod.Reject # "" /\ HasStringKind(manifest)
                            /\ MatchString(mod.Reject, KindOf(manifest))
    THEN "skip"
    ELSE "apply"

RECURSIVE ExtractFrom(_, _, _, _, _)
\* the loop over mod.ValuesSelector: [status, extracted]
ExtractFrom(mod, matches, i, candid, extracted) ==
    IF i > Len(mod.ValuesSelector) THEN [status |-> "ok", extracted |-> extracted]
    ELSE LET vals == EvaluateSelector(mod.ValuesSelector[i], candid)
         IN  IF ~vals.ok THEN [status |-> "error", extracted |-> extracted]
             ELSE IF Len(matches) >= 1
             THEN IF i > Len(matches)
                  THEN [status |-> "panic", extracted |-> extracted]
                  ELSE LET valuesMap == wrapResult(vals.nodes, matches[i])
                       IN  IF valuesMap.status # "ok"
                           THEN [status |-> "error", extracted |-> extracted]
                           ELSE ExtractFrom(mod, matches, i + 1, candid,
                                            DeepMerge(extracted, valuesMap.map))
             ELSE [status |-> "error", extracted |-> extracted]

\* one non-skipped rule: the selectors, then the expression
ApplyRule(mod, st) ==
    LET ex == ExtractFrom(mod, FindAllValuesPaths(mod.Expression), 1,
                          st.candid, st.extracted)
    IN  IF ex.status # "ok" THEN [st EXCEPT !.status = ex.status]
        ELSE LET result == EvaluateExpression(mod.Expression, st.candid)
             IN  IF ~result.ok THEN [st EXCEPT !.status = "error"]
                 ELSE LET resultManifest == resultToMap(result.nodes)
                      IN  IF resultManifest.status # "ok"
                          THEN [st EXCEPT !.status = resultManifest.status]
                          ELSE [status    |-> "ok",
                                candid    |-> result.candid,
                                modified  |-> resultManifest.map,
                                extracted |-> ex.extracted]

RECURSIVE ApplyFrom(_, _, _, _)
\* the loop over the rules, from rule i on
ApplyFrom(manifest, rules, i, st) ==
    IF i > Len(rules) \/ st.status # "ok" THEN st
    ELSE LET gate == Gate(manifest, rules[i])
         IN  CASE gate = "error" -> [st EXCEPT !.status = "error"]
               [] gate = "skip"  -> ApplyFrom(manifest, rules, i + 1, st)
               [] OTHER -> ApplyFrom(manifest, rules, i + 1, ApplyRule(rules[i], st))

\* [status, doc, values]: status "ok" with the modified manifest and the
\* extracted values, "error" for a returned error (nil, nil, err), "panic"
\* for a run-time panic
applyModifications(manifest, rules) ==
    LET st == ApplyFrom(manifest, rules, 1,
                        [status    |-> "ok",
                         candid    |-> Mapping(manifest),
                         modified  |-> manifest,
                         extracted |-> NoMap])
    IN  IF st.status = "ok"
        THEN [status |-> "ok", doc |-> st.modified, values |-> st.extracted]
        ELSE [status |-> st.status, doc |-> NoMap, values |-> NoMap]

(***************************************************************************)
(* common.NewManifests, modifier.FilterManifests                           *)
(***************************************************************************)
\* strings.ToLower on the kinds and exclusion entries of the releases
ToLower(str) ==
    CASE str = "A" -> "a"
      [] str = "B" -> "b"
      [] str = "CustomResourceDefinition" -> "customresourcedefinition"
      [] str = "CustomResourceDefinitionList" -> "customresourcedefinitionlist"
      [] OTHER -> str

\* kind == "CustomResourceDefinition"
IsCrdKind(kind) == kind = "CustomResourceDefinition"

\* strings.HasPrefix(kind, "CustomResourceDefinition")
HasCrdPrefix(kind) == kind \in {"CustomResourceDefinition", "CustomResourceDefinitionList"}

RECURSIVE PartitionFrom(_, _, _)
\* the inner loop of NewManifests over the documents of one asset
PartitionFrom(maps, i, acc) ==
    IF i > Len(maps) THEN acc
    ELSE PartitionFrom(maps, i + 1,
            IF HasStringKind(maps[i]) /\ HasCrdPrefix(KindOf(maps[i]))
            THEN [acc EXCEPT !.crds = Append(@, maps[i])]
            ELSE [acc EXCEPT !.manifests = Append(@, maps[i])])

RECURSIVE CollectFrom(_, _, _, _)
\* the outer loop of NewManifests, the assets taken in the order `order`
CollectFrom(assetsData, order, i, acc) ==
    IF i > Len(order) THEN acc
    ELSE CollectFrom(assetsData, order, i + 1,
                     PartitionFrom(assetsData[order[i]], 1, acc))

NewManifests(assetsData, order, version, appVersion, initialValues, initialCrdValues) ==
    LET parts == CollectFrom(assetsData, order, 1, [crds |-> <<>>, manifests |-> <<>>])
    IN  [Crds       |-> parts.crds,
         Manifests  |-> parts.manifests,
         Version    |-> version,
         AppVersion |-> appVersion,
         Values     |-> initialValues,
         CrdsValues |-> initialCrdValues]

\* deniedKinds[strings.ToLower(filter)] = true for every filter
DeniedKinds(denyKindFilter) ==
    {ToLower(denyKindFilter[i]) : i \in 1..Len(denyKindFilter)}

RECURSIVE KeepFrom(_, _, _)
KeepFrom(list, denied, i) ==
    IF i > Len(list) THEN <<>>
    ELSE (IF HasStringKind(list[i]) /\ ToLower(KindOf(list[i])) \in denied
          THEN <<>> ELSE <<list[i]>>)
         \o KeepFrom(list, denied, i + 1)

RECURSIVE KeepExactFrom(_, _, _)
KeepExactFrom(list, denied, i) ==
    IF i > Len(list) THEN <<>>
    ELSE (IF HasStringKind(list[i]) /\ KindOf(list[i]) \in denied
          THEN <<>> ELSE <<list[i]>>)
         \o KeepExactFrom(list, denied, i + 1)

\* FilterManifests that compares the kinds as they are written
FilterManifestsExact(manifests, denyKindFilter) ==
    [manifests EXCEPT
        !.Manifests = KeepExactFrom(manifests.Manifests,
                                    {denyKindFilter[i] : i \in 1..Len(denyKindFilter)}, 1)]

FilterManifests(manifests, denyKindFilter) ==
    [Crds       |-> manifests.Crds,
     Manifests  |-> KeepFrom(manifests.Manifests, DeniedKinds(denyKindFilter), 1),
     Version    |-> manifests.Version,
     AppVersion |-> manifests.AppVersion,
     Values     |-> manifests.Values,
     CrdsValues |-> manifests.CrdsValues]

(***************************************************************************)
(* createTemplates: the template files of a chart, one per kind.           *)
(***************************************************************************)
\* yaml.Marshal(manifest), as a piece of a template's Data
Marshal(manifest) == [marker |-> FALSE, yaml |-> manifest]

\* the bytes "\n---\n"
Boundary == [marker |-> TRUE, yaml |-> NoMap]

\* fmt.Sprintf("templates/%s.yaml", strings.ToLower(kind))
TemplateName(kind) == [dir |-> "templates", base |-> ToLower(kind), ext |-> "yaml"]

\* the template map with manifest added under the key `key`
AddToTemplates(templates, key, name, manifest) ==
    IF key \in DOMAIN templates
    THEN [templates EXCEPT ![key].Data = @ \o <<Boundary, Marshal(manifest)>>]
    ELSE [k \in DOMAIN templates \cup {key} |->
            IF k = key THEN [Name |-> name, Data |-> <<Marshal(manifest)>>]
            ELSE templates[k]]

RECURSIVE TemplatesFrom(_, _, _)
\* the loop over newManifests: the map kind -> file, or the error of the
\* first manifest without a string kind
TemplatesFrom(newManifests, i, templates) ==
    IF i > Len(newManifests) THEN [err |-> FALSE, templates |-> templates]
    ELSE IF ~HasStringKind(newManifests[i]) THEN [err |-> TRUE, templates |-> templates]
    ELSE TemplatesFrom(newManifests, i + 1,
            AddToTemplates(templates, KindOf(newManifests[i]),
                           TemplateName(KindOf(newManifests[i])), newManifests[i]))

RECURSIVE TemplatesFoldedFrom(_, _, _)
TemplatesFoldedFrom(newManifests, i, templates) ==
    IF i > Len(newManifests) THEN [err |-> FALSE, templates |-> templates]
    ELSE IF ~HasStringKind(newManifests[i]) THEN [err |-> TRUE, templates |-> templates]
    ELSE TemplatesFoldedFrom(newManifests, i + 1,
            AddToTemplates(templates, ToLower(KindOf(newManifests[i])),
                           TemplateName(KindOf(newManifests[i])), newManifests[i]))

\* the sequences a range over a map with these keys can produce
MapOrders(keys) ==
    {o \in [1..Cardinality(keys) -> keys] : \A k \in keys : \E i \in DOMAIN o : o[i] = k}

RECURSIVE KeysInSomeOrder(_)
KeysInSomeOrder(keys) ==
    IF keys = {} THEN <<>>
    ELSE LET k == CHOOSE k \in keys : TRUE IN <<k>> \o KeysInSomeOrder(keys \ {k})

\* createTemplates that files the manifests under their lower-cased kind
createTemplatesFolded(chTemplates, newManifests, order) ==
    LET built == TemplatesFoldedFrom(newManifests, 1, NoMap)
        keys  == KeysInSomeOrder(DOMAIN built.templates)
    IN  IF built.err THEN [status |-> "error", Templates |-> chTemplates]
        ELSE [status |-> "ok",
              Templates |-> [i \in DOMAIN keys |-> built.templates[keys[i]]]]

\* createTemplates(ch, newManifests), the range over the template map
\* visiting the kinds in the order `order`; on an error ch.Templates is
\* left as it was
createTemplates(chTemplates, newManifests, order) ==
    LET built == TemplatesFrom(newManifests, 1, NoMap)
    IN  IF built.err THEN [status |-> "error", Templates |-> chTemplates]
        ELSE [status |-> "ok",
              Templates |-> [i \in DOMAIN order |-> built.templates[order[i]]]]

\* the kinds under which createTemplates files the manifests
TemplateKinds(newManifests) ==
    {KindOf(newManifests[i]) : i \in {j \in 1..Len(newManifests) : HasStringKind(newManifests[j])}}

(***************************************************************************)
(* The git client: Commit and unstage on a go-git worktree.  A path is the *)
(* sequence of the pieces of its text, so that a prefix of the text is a   *)
(* prefix of the sequence.  A file is its content in HEAD, in the index    *)
(* and in the working directory, 0 where the file is absent.               *)
(***************************************************************************)
\* strings.HasPrefix
HasPrefix(str, prefix) ==
    Len(prefix) <= Len(str) /\ SubSeq(str, 1, Len(prefix)) = prefix

\* fmt.Sprintf("%s/%s", charts.Path, name)
JoinPath(path, name) == path \o <<"/">> \o name

\* the path names a file below the directory dir
IsBelow(filePath, dir) == HasPrefix(filePath, dir \o <<"/">>)

\* FileStatus.Staging of go-git: HEAD against the index
Staging(file) ==
    CASE file.index = 0 /\ file.head = 0 -> "Untracked"
      [] file.index = file.head -> "Unmodified"
      [] file.head = 0 -> "Added"
      [] file.index = 0 -> "Deleted"
      [] OTHER -> "Modified"

\* FileStatus.Worktree of go-git: the index against the working directory
WorktreeCode(file) ==
    CASE file.index = file.work -> "Unmodified"
      [] file.index = 0 -> "Untracked"
      [] file.work = 0 -> "Deleted"
      [] OTHER -> "Modified"

\* wt.Status(): the paths that are not unmodified in both respects
Status(tree) ==
    {f \in DOMAIN tree : Staging(tree[f]) # "Unmodified" \/ WorktreeCode(tree[f]) # "Unmodified"}

\* wt.Add on the paths in `paths`: the index takes the working directory's
\* content
Add(tree, paths) ==
    [f \in DOMAIN tree |-> IF f \in paths THEN [tree[f] EXCEPT !.index = tree[f].work]
                           ELSE tree[f]]

\* wt.Add(dir) on a directory
AddDir(tree, dir) == Add(tree, {f \in DOMAIN tree : IsBelow(f, dir)})

\* wt.Restore with Staged: the index takes HEAD's content
Restore(tree, paths) ==
    [f \in DOMAIN tree |-> IF f \in paths THEN [tree[f] EXCEPT !.index = tree[f].head]
                           ELSE tree[f]]

\* wt.Commit: HEAD takes the index
CommitIndex(tree) == [f \in DOMAIN tree |-> [tree[f] EXCEPT !.head = tree[f].index]]

\* Client.unstage
unstage(tree, chartPath, crdsChartPath) ==
    LET status == Status(tree)
        own    == {f \in status : HasPrefix(f, chartPath) \/ HasPrefix(f, crdsChartPath)}
        unstageFiles ==
            {f \in status \ own :
                \/ Staging(tree[f]) \in {"Modified", "Deleted"}
                \/ WorktreeCode(tree[f]) \in {"Added", "Renamed"}}
    IN  Restore(Add(tree, own), unstageFiles)

\* Client.Commit: the CRD chart's name is read before the nil check, which
\* panics for a package without a CRD chart
Commit(tree, helmized) ==
    IF ~helmized.CrdChart.present
    THEN [status |-> "panic", tree |-> tree, changed |-> {}]
    ELSE LET chartPath     == JoinPath(helmized.Path, helmized.Chart.name)
             crdsChartPath == JoinPath(helmized.Path, helmized.CrdChart.name)
             unstaged      == unstage(tree, chartPath, crdsChartPath)
             added         == AddDir(AddDir(unstaged, chartPath), crdsChartPath)
         IN  [status  |-> "ok",
              tree    |-> CommitIndex(added),
              changed |-> {f \in DOMAIN tree : added[f].index # added[f].head}]

(***************************************************************************)
(* Semantic versions (Masterminds/semver) and takeNewerVersion.  A version *)
(* string is written as its parts: an optional leading "v", one to three   *)
(* numbers, an optional pre-release and optional build metadata.           *)
(***************************************************************************)
VersionString(lead, nums, pre, meta) ==
    [lead |-> lead, nums |-> nums, pre |-> pre, meta |-> meta]

\* a tag such as "not-semver"
NotSemver == VersionString("", <<>>, "", "")

\* the nil *semver.Version
NilVersion == [nil |-> TRUE]

\* semver.NewVersion: missing minor and patch numbers are read as 0
NewVersion(str) ==
    IF Len(str.nums) = 0
    THEN [err |-> TRUE, v |-> NilVersion]
    ELSE [err |-> FALSE,
          v   |-> [nil      |-> FALSE,
                   major    |-> str.nums[1],
                   minor    |-> IF Len(str.nums) >= 2 THEN str.nums[2] ELSE 0,
                   patch    |-> IF Len(str.nums) >= 3 THEN str.nums[3] ELSE 0,
                   pre      |-> str.pre,
                   metadata |-> str.meta,
                   original |-> str]]

\* compareSegment
CompareSegment(v, o) == IF v < o THEN -1 ELSE IF v > o THEN 1 ELSE 0

\* comparePrerelease: a release is greater than any of its pre-releases
ComparePrerelease(v, o) ==
    CASE v = o -> 0
      [] v = "" -> 1
      [] o = "" -> -1
      [] OTHER -> IF v = "alpha" THEN -1 ELSE 1

\* Version.Compare: major, minor, patch, then the pre-release; the build
\* metadata takes no part
Compare(v, o) ==
    IF CompareSegment(v.major, o.major) # 0 THEN CompareSegment(v.major, o.major)
    ELSE IF CompareSegment(v.minor, o.minor) # 0 THEN CompareSegment(v.minor, o.minor)
    ELSE IF CompareSegment(v.patch, o.patch) # 0 THEN CompareSegment(v.patch, o.patch)
    ELSE ComparePrerelease(v.pre, o.pre)

\* Version.String: the three numbers, the pre-release and the metadata,
\* without the leading "v"
String(v) == VersionString("", <<v.major, v.minor, v.patch>>, v.pre, v.metadata)

\* takeNewerVersion that takes the remote version whenever it parses
takeNewerVersionRemote(existingVersion, remoteVersion) ==
    LET semverExisting == NewVersion(existingVersion).v
        semverRemote   == NewVersion(remoteVersion)
    IN  IF semverRemote.err THEN [status |-> "ok", version |-> semverExisting]
        ELSE [status |-> "ok", version |-> semverRemote.v]

\* the error of parsing existingVersion is dropped, so semverExisting may be
\* nil; Compare dereferences its argument
takeNewerVersion(existingVersion, remoteVersion) ==
    LET semverExisting == NewVersion(existingVersion).v
        semverRemote   == NewVersion(remoteVersion)
    IN  IF semverRemote.err THEN [status |-> "ok", version |-> semverExisting]
        ELSE IF semverExisting.nil THEN [status |-> "panic", version |-> NilVersion]
        ELSE IF Compare(semverRemote.v, semverExisting) < 0
             THEN [status |-> "ok", version |-> semverExisting]
             ELSE [status |-> "ok", version |-> semverRemote.v]

(***************************************************************************)
(* Inputs of the merge: mappings nested up to MaxDepth levels.             *)
(***************************************************************************)
MaxDepth == 2

MergeScalars == {"1", "2"}

\* keys used at nesting level d (1 is the top level)
MergeKeys(d) == IF d = 1 THEN {"p", "q"} ELSE {"q"}

\* all functions from a subset of keys to vals
PartialMaps(keys, vals) == UNION {[ks -> vals] : ks \in SUBSET keys}

RECURSIVE MergeMaps(_)
\* the mappings whose top level is level d
MergeMaps(d) ==
    PartialMaps(MergeKeys(d),
                {Scalar(x) : x \in MergeScalars}
                \cup (IF d >= MaxDepth THEN {}
                      ELSE {Mapping(f) : f \in MergeMaps(d + 1)}))

(***************************************************************************)
(* Inputs of the rule engine: manifests and rule lists of up to MaxRules   *)
(* rules.                                                                  *)
(***************************************************************************)
MaxRules == 2

SpecValues ==
    {Scalar("v"),
     Mapping(NoMap),
     Mapping([cfg |-> Scalar("c")]),
     Mapping([cfg |-> Mapping([x |-> Scalar("1")]), x |-> Scalar("2")])}

KindValues == {Scalar("A"), Scalar("B"), Mapping(NoMap)}

\* manifests with and without a kind, with a string and a non-string kind
EngineManifests ==
    {[kind |-> k, spec |-> v] : k \in KindValues, v \in SpecValues}
    \cup {[kind |-> k] : k \in KindValues}
    \cup {[spec |-> v] : v \in SpecValues}

ReleaseRef == [values |-> FALSE, dotted |-> "Release.Namespace"]

ValuesRef(dotted) == [values |-> TRUE, dotted |-> dotted]

\* .ns |= "{{ .Release.Namespace }}"
SetNamespace ==
    [op |-> "assign", target |-> <<"ns">>, text |-> "{{ .Release.Namespace }}",
     refs |-> <<ReleaseRef>>]

\* .spec.cfg |= "{{ .Values.p.q }}"
SetCfg ==
    [op |-> "assign", target |-> <<"spec", "cfg">>, text |-> "{{ .Values.p.q }}",
     refs |-> <<ValuesRef("p.q")>>]

\* .spec.x |= "{{ .Values.r }}"
SetX ==
    [op |-> "assign", target |-> <<"spec", "x">>, text |-> "{{ .Values.r }}",
     refs |-> <<ValuesRef("r")>>]

\* .spec.cfg |= "{{ .Values.p.q }}/{{ .Values.r }}"
SetCfgTwoRefs ==
    [op |-> "assign", target |-> <<"spec", "cfg">>,
     text |-> "{{ .Values.p.q }}/{{ .Values.r }}",
     refs |-> <<ValuesRef("p.q"), ValuesRef("r")>>]

\* .kind |= "B"
SetKind == [op |-> "assign", target |-> <<"kind">>, text |-> "B", refs |-> <<>>]

\* .spec
PathSpec == [op |-> "path", target |-> <<"spec">>, text |-> "", refs |-> <<>>]

\* .spec |
Unparsable == [op |-> "bad", target |-> <<>>, text |-> "", refs |-> <<>>]

\* .spec.cfg, .spec.x, .spec[], .spec[
SelCfg == [bad |-> FALSE, path |-> <<"spec", "cfg">>, splat |-> FALSE]

SelX == [bad |-> FALSE, path |-> <<"spec", "x">>, splat |-> FALSE]

SelSplat == [bad |-> FALSE, path |-> <<"spec">>, splat |-> TRUE]

SelBad == [bad |-> TRUE, path |-> <<>>, splat |-> FALSE]

Modification(kind, reject, expression, selectors) ==
    [Kind |-> kind, Reject |-> reject, Expression |-> expression,
     ValuesSelector |-> selectors]

\* every combination of the two gates, on a rule without and with a selector
GatedRules ==
    {Modification(k, r, SetNamespace, <<>>) : k \in {"", "A", "["}, r \in {"", "B", "["}}
    \cup {Modification("A", "", SetCfg, <<SelCfg>>),
          Modification("", "B", SetCfg, <<SelCfg>>)}

\* ungated rules: selectors and placeholders in every proportion
UngatedRules ==
    {Modification("", "", SetCfg, <<SelCfg>>),
     Modification("", "", SetCfg, <<>>),
     Modification("", "", SetCfg, <<SelCfg, SelX>>),
     Modification("", "", SetCfgTwoRefs, <<SelCfg>>),
     Modification("", "", SetCfgTwoRefs, <<SelCfg, SelX>>),
     Modification("", "", SetNamespace, <<SelCfg>>),
     Modification("", "", SetX, <<SelX>>),
     Modification("", "", SetCfg, <<SelSplat>>),
     Modification("", "", SetCfg, <<SelBad>>),
     Modification("", "", PathSpec, <<>>),
     Modification("", "", SetKind, <<>>),
     Modification("", "", Unparsable, <<>>)}

EngineRules == GatedRules \cup UngatedRules

\* the sequences over S of length at most n
SeqsUpTo(S, n) == UNION {[1..k -> S] : k \in 0..n}

(***************************************************************************)
(* Inputs of a release task: the documents of up to two assets, MaxDocs    *)
(* documents in all, and the release's exclusion list, rules and seeds.    *)
(***************************************************************************)
MaxDocs == 3

ReleaseKinds == {"A", "CustomResourceDefinition"}

\* a spec the rules below can parametrize, and one they fail on
ReleaseSpecs == {Mapping([cfg |-> Scalar("c")]), Scalar("v")}

ReleaseDocuments ==
    {[kind |-> Scalar(k), spec |-> v] : k \in ReleaseKinds, v \in ReleaseSpecs}
    \cup {[spec |-> Mapping([cfg |-> Scalar("d")])]}

AssetNames == <<"first.yaml", "second.yaml">>

\* the parsed documents of the two assets
AssetSets ==
    {[n \in {AssetNames[1], AssetNames[2]} |->
        IF n = AssetNames[1] THEN SubSeq(ds, 1, k) ELSE SubSeq(ds, k + 1, Len(ds))]
     : <<ds, k>> \in {<<ds, k>> \in SeqsUpTo(ReleaseDocuments, MaxDocs) \X (0..MaxDocs) :
                        k <= Len(ds)}}

DropLists == {<<>>, <<"a">>, <<"B", "customresourcedefinition">>}

RuleLists ==
    {<<>>,
     <<Modification("", "", SetNamespace, <<>>), Modification("", "", SetCfg, <<SelCfg>>)>>,
     <<Modification("A", "", SetCfg, <<SelCfg>>)>>,
     <<Modification("", "", SetCfg, <<SelCfg, SelX>>)>>}

SeedValues ==
    {[main |-> NoMap, crds |-> NoMap],
     [main |-> [p |-> Mapping([q |-> Scalar("seed")])], crds |-> [r |-> Scalar("seed")]]}

Releases ==
    {[Drop |-> d, Modifications |-> l, AddValues |-> v.main, AddCrdValues |-> v.crds]
     : d \in DropLists, l \in RuleLists, v \in SeedValues}

\* the orders in which a range over the asset map can visit the assets
AssetOrders == {<<AssetNames[1], AssetNames[2]>>, <<AssetNames[2], AssetNames[1]>>}

\* the nil sent for a release without a package
NoPackage == [pkg |-> FALSE]

\* a chart directory: the chart of the release before, the scaffold of
\* chartutil.Create, or the chart that save wrote
PreviousChart == [state |-> "previous"]

ScaffoldChart == [state |-> "scaffold"]

\* what fails outside the program while a chart is built
Environments == [{"main", "crds"} -> {"none", "create", "lint"}]

(***************************************************************************)
(* Inputs of NewManifests alone: up to MaxParsed parsed documents in two   *)
(* assets, with kinds around the CustomResourceDefinition prefix.          *)
(***************************************************************************)
MaxParsed == 3

ParsedAssets ==
    {[n \in {AssetNames[1], AssetNames[2]} |->
        IF n = AssetNames[1] THEN SubSeq(ds, 1, k) ELSE SubSeq(ds, k + 1, Len(ds))]
     : <<ds, k>> \in
         {<<ds, k>> \in
            SeqsUpTo({[kind |-> Scalar(k), spec |-> Scalar("1")] :
                         k \in {"A", "CustomResourceDefinition",
                                "CustomResourceDefinitionList",
                                "customresourcedefinition"}}
                     \cup {[kind |-> Mapping([name |-> Scalar("CustomResourceDefinition")]),
                            spec |-> Scalar("1")],
                           [spec |-> Scalar("1")]},
                     MaxParsed) \X (0..MaxParsed) :
            k <= Len(ds)}}

(***************************************************************************)
(* Inputs of the version resolution: version numbers up to MaxPart.        *)
(***************************************************************************)
MaxPart == 2

ValidVersionStrings ==
    {VersionString(l, n, p, m) :
        l \in {"", "v"},
        n \in [1..3 -> 0..MaxPart] \cup [1..2 -> 0..MaxPart],
        p \in {"", "alpha", "rc1"},
        m \in {"", "b1"}}

VersionStrings == ValidVersionStrings \cup {NotSemver}

\* the versions PeekVersions can find in a chart: what an earlier run wrote
\* with Version.String(), or a text that is no version
ChartVersionStrings ==
    {str \in ValidVersionStrings : str.lead = "" /\ Len(str.nums) = 3} \cup {NotSemver}

(***************************************************************************)
(* Inputs of createTemplates: lists of up to MaxManifests manifests.       *)
(***************************************************************************)
MaxManifests == 3

TemplateManifests ==
    {[kind |-> Scalar(k), spec |-> Scalar(v)] : k \in {"A", "a", "B"}, v \in {"1", "2"}}
    \cup {[spec |-> Scalar("1")]}

\* the templates chartutil.Create has written and loader.Load has read
Scaffold ==
    <<[Name |-> [dir |-> "templates", base |-> "deployment", ext |-> "yaml"],
       Data |-> <<Marshal([kind |-> Scalar("Deployment")])>>]>>

(***************************************************************************)
(* UpdateMode: MaxReleases configured releases, each with one manifest.    *)
(***************************************************************************)
MaxReleases == 2

ReleaseIds == 1..MaxReleases

\* the synthesized charts of release r, whose manifest was decoded as the
\* manifest of release `content`
Package(r, content, crds) ==
    [pkg |-> TRUE, name |-> r, content |-> content, crds |-> crds]

(***************************************************************************)
(* Inputs of Commit: the charts of release "foo" and a working tree with   *)
(* its files, a chart "foobar", another chart and a file outside charts.   *)
(***************************************************************************)
MaxContent == 2

FooChartFile == <<"charts", "/", "foo", "/", "Chart.yaml">>

FooCrdsChartFile == <<"charts", "/", "foo", "-crds", "/", "Chart.yaml">>

FoobarChartFile == <<"charts", "/", "foo", "bar", "/", "Chart.yaml">>

OtherChartFile == <<"charts", "/", "other", "/", "Chart.yaml">>

ReadmeFile == <<"README.md">>

TreeFiles == {FooChartFile, FooCrdsChartFile, FoobarChartFile, OtherChartFile, ReadmeFile}

File(head, index, work) == [head |-> head, index |-> index, work |-> work]

\* a file in any state of HEAD, index and working directory
AnyFile ==
    {File(h, i, w) : h \in 0..1, i \in 0..MaxContent, w \in 0..MaxContent}
    \ {File(0, 0, 0)}

\* a file a release task has just written: new, or changed and not staged
WrittenFile == {File(0, 0, w) : w \in 1..MaxContent} \cup {File(1, 1, w) : w \in 2..MaxContent}

\* a file a release task may have written or left alone
ChartFile == WrittenFile \cup {File(1, 1, 1)}

Worktrees ==
    {[f \in TreeFiles |->
        CASE f = FooChartFile -> own
          [] f = FooCrdsChartFile -> crd
          [] f = FoobarChartFile -> sib
          [] f = OtherChartFile -> oth
          [] OTHER -> rdm]
     : own \in WrittenFile, crd \in ChartFile, sib \in ChartFile, oth \in ChartFile,
       rdm \in AnyFile}

\* the charts NewHelmCharts returns for release "foo"
HelmizedManifests ==
    {[Path |-> <<"charts">>, Chart |-> [name |-> <<"foo">>],
      CrdChart |-> [present |-> p, name |-> <<"foo", "-crds">>]] : p \in BOOLEAN}

VARIABLES ma, mb, mc, mout, doc, mods, applied,
          release, assets, pc, fetched, filtered, pm, engineCalls, returned,
          createdCharts, disk,
          existingVersion, remoteVersion, vpc, resolved, chartVersion,
          newManifests, firstRun, secondRun,
          offline, withCrds, tpc, decoded, held, sent, decoder, wg, spawned,
          mpc, received, charts, gitOps,
          worktree, helmized, commit

mergeVars == <<ma, mb, mc, mout>>

engineVars == <<doc, mods, applied>>

taskVars == <<release, assets, pc, fetched, filtered, pm, engineCalls, returned,
              createdCharts, disk>>

versionVars == <<existingVersion, remoteVersion, vpc, resolved, chartVersion>>

templateVars == <<newManifests, firstRun, secondRun>>

runVars == <<offline, withCrds, tpc, decoded, held, sent, decoder, wg, spawned,
             mpc, received, charts, gitOps>>

gitVars == <<worktree, helmized, commit>>

vars == <<ma, mb, mc, mout, doc, mods, applied,
          release, assets, pc, fetched, filtered, pm, engineCalls, returned,
          createdCharts, disk,
          existingVersion, remoteVersion, vpc, resolved, chartVersion,
          newManifests, firstRun, secondRun,
          offline, withCrds, tpc, decoded, held, sent, decoder, wg, spawned,
          mpc, received, charts, gitOps,
          worktree, helmized, commit>>

NoManifests ==
    [Crds |-> <<>>, Manifests |-> <<>>, Version |-> "", AppVersion |-> "",
     Values |-> NoMap, CrdsValues |-> NoMap]

NoLocals ==
    [modifiedManifests |-> <<>>, modifiedCrds |-> <<>>,
     extractedValues |-> NoMap, extractedCrdValues |-> NoMap]

\* the variables of every part of the program but `own` at rest
IdleOutside(own) ==
    /\ IF own = "merge" THEN TRUE
       ELSE
          /\ ma = NoMap
          /\ mb = NoMap
          /\ mc = NoMap
          /\ mout = [done |-> FALSE]
    /\ IF own = "engine" THEN TRUE
       ELSE
          /\ doc = NoMap
          /\ mods = <<>>
          /\ applied = [status |-> "none"]
    /\ IF own = "task" THEN TRUE
       ELSE
          /\ release = [Drop |-> <<>>, Modifications |-> <<>>,
                        AddValues |-> NoMap, AddCrdValues |-> NoMap]
          /\ assets = [n \in {AssetNames[1], AssetNames[2]} |-> <<>>]
          /\ pc = "idle"
          /\ fetched = NoManifests
          /\ filtered = NoManifests
          /\ pm = NoLocals
          /\ engineCalls = <<>>
          /\ returned = [kind |-> "none"]
          /\ createdCharts = <<>>
          /\ disk = [main |-> PreviousChart, crds |-> PreviousChart]
    /\ IF own = "version" THEN TRUE
       ELSE
          /\ existingVersion = NotSemver
          /\ remoteVersion = NotSemver
          /\ vpc = "idle"
          /\ resolved = [status |-> "none"]
          /\ chartVersion = NotSemver
    /\ IF own = "template" THEN TRUE
       ELSE
          /\ newManifests = <<>>
          /\ firstRun = [status |-> "none"]
          /\ secondRun = [status |-> "none"]
    /\ IF own = "run" THEN TRUE
       ELSE
          /\ offline = TRUE
          /\ withCrds = [r \in ReleaseIds |-> FALSE]
          /\ tpc = [r \in ReleaseIds |-> "idle"]
          /\ decoded = [r \in ReleaseIds |-> 0]
          /\ held = [r \in ReleaseIds |-> NoPackage]
          /\ sent = [r \in ReleaseIds |-> 0]
          /\ decoder = [reader |-> 0, readAnything |-> FALSE]
          /\ wg = 0
          /\ spawned = 0
          /\ mpc = "idle"
          /\ received = 0
          /\ charts = NoPackage
          /\ gitOps = <<>>
    /\ IF own = "git" THEN TRUE
       ELSE
          /\ worktree = [f \in TreeFiles |-> File(1, 1, 1)]
          /\ helmized = [Path |-> <<"charts">>, Chart |-> [name |-> <<"foo">>],
                         CrdChart |-> [present |-> FALSE, name |-> <<"foo", "-crds">>]]
          /\ commit = [status |-> "none"]

MergeInit ==
    /\ ma \in MergeMaps(1)
    /\ mb \in MergeMaps(1)
    /\ mc \in MergeMaps(1)
    /\ mout = [done |-> FALSE]
    /\ IdleOutside("merge")

\* a caller folds three overlays, grouped to the left and to the right
MergeAll ==
    /\ ~mout.done
    /\ mout' = [done  |-> TRUE,
                ab    |-> DeepMerge(ma, mb),
                left  |-> DeepMerge(DeepMerge(ma, mb), mc),
                right |-> DeepMerge(ma, DeepMerge(mb, mc))]
    /\ UNCHANGED <<ma, mb, mc>>
    /\ UNCHANGED <<engineVars, taskVars, versionVars, templateVars, runVars, gitVars>>

SpecMerge == MergeInit /\ [][MergeAll]_vars

EngineInit ==
    /\ doc \in EngineManifests
    /\ mods \in SeqsUpTo(EngineRules, MaxRules)
    /\ applied = [status |-> "none"]
    /\ IdleOutside("engine")

\* one call of applyModifications
CallApplyModifications ==
    /\ applied.status = "none"
    /\ applied' = applyModifications(doc, mods)
    /\ UNCHANGED <<doc, mods>>
    /\ UNCHANGED <<mergeVars, taskVars, versionVars, templateVars, runVars, gitVars>>

SpecEngine == EngineInit /\ [][CallApplyModifications]_vars

(***************************************************************************)
(* One release task of UpdateMode: ProcessManifests (fetch, filter,        *)
(* parametrize), NewHelmCharts, and the send on createdCharts.             *)
(***************************************************************************)
Init ==
    /\ release \in Releases
    /\ assets \in AssetSets
    /\ pc = "process"
    /\ fetched = NoManifests
    /\ filtered = NoManifests
    /\ pm = NoLocals
    /\ engineCalls = <<>>
    /\ returned = [kind |-> "none"]
    /\ createdCharts = <<>>
    /\ disk = [main |-> PreviousChart, crds |-> PreviousChart]
    /\ IdleOutside("task")

\* PeekVersions, the release metadata, an asset download or ExtractYamls fails
FetchFails ==
    /\ pc = "process"
    /\ returned' = [kind |-> "error"]
    /\ pc' = "returned"
    /\ UNCHANGED <<release, assets, fetched, filtered, pm, engineCalls, createdCharts, disk>>
    /\ UNCHANGED <<mergeVars, engineVars, versionVars, templateVars, runVars, gitVars>>

\* the chart's application version already is the latest tag: (nil, nil)
FetchUpToDate ==
    /\ pc = "process"
    /\ returned' = [kind |-> "nil"]
    /\ pc' = "returned"
    /\ UNCHANGED <<release, assets, fetched, filtered, pm, engineCalls, createdCharts, disk>>
    /\ UNCHANGED <<mergeVars, engineVars, versionVars, templateVars, runVars, gitVars>>

\* FetchManifests downloads the assets and NewManifests partitions them
FetchNew ==
    /\ pc = "process"
    /\ \E order \in AssetOrders :
          fetched' = NewManifests(assets, order, "1.3.0", "v1.3.0",
                                  release.AddValues, release.AddCrdValues)
    /\ pc' = "filter"
    /\ UNCHANGED <<release, assets, filtered, pm, engineCalls, returned, createdCharts, disk>>
    /\ UNCHANGED <<mergeVars, engineVars, versionVars, templateVars, runVars, gitVars>>

\* FilterManifests, and the entry of ParametrizeManifests
Filter ==
    /\ pc = "filter"
    /\ filtered' = FilterManifests(fetched, release.Drop)
    /\ pm' = [modifiedManifests  |-> <<>>,
              modifiedCrds       |-> <<>>,
              extractedValues    |-> filtered'.Values,
              extractedCrdValues |-> filtered'.CrdsValues]
    /\ pc' = "parametrize"
    /\ UNCHANGED <<release, assets, fetched, engineCalls, returned, createdCharts, disk>>
    /\ UNCHANGED <<mergeVars, engineVars, versionVars, templateVars, runVars, gitVars>>

\* ParametrizeManifests that keeps a manifest as it is when its rules fail
ParametrizeManifestBestEffort ==
    /\ pc = "parametrize"
    /\ Len(pm.modifiedManifests) < Len(filtered.Manifests)
    /\ LET manifest == filtered.Manifests[Len(pm.modifiedManifests) + 1]
           res      == applyModifications(manifest, release.Modifications)
       IN  /\ engineCalls' = Append(engineCalls, manifest)
           /\ pm' = IF res.status = "ok"
                    THEN [pm EXCEPT
                            !.modifiedManifests = Append(@, res.doc),
                            !.extractedValues = DeepMerge(@, res.values)]
                    ELSE [pm EXCEPT !.modifiedManifests = Append(@, manifest)]
           /\ UNCHANGED <<pc, returned>>
    /\ UNCHANGED <<release, assets, fetched, filtered, createdCharts, disk>>
    /\ UNCHANGED <<mergeVars, engineVars, versionVars, templateVars, runVars, gitVars>>

\* one iteration of the loop over manifests.Manifests
ParametrizeManifest ==
    /\ pc = "parametrize"
    /\ Len(pm.modifiedManifests) < Len(filtered.Manifests)
    /\ LET manifest == filtered.Manifests[Len(pm.modifiedManifests) + 1]
           res      == applyModifications(manifest, release.Modifications)
       IN  /\ engineCalls' = Append(engineCalls, manifest)
           /\ CASE res.status = "ok" ->
                     /\ pm' = [pm EXCEPT
                                 !.modifiedManifests = Append(@, res.doc),
                                 !.extractedValues = DeepMerge(@, res.values)]
                     /\ UNCHANGED <<pc, returned>>
                [] res.status = "error" ->
                     /\ returned' = [kind |-> "error"]
                     /\ pc' = "returned"
                     /\ UNCHANGED pm
                [] OTHER ->
                     /\ pc' = "crashed"
                     /\ UNCHANGED <<pm, returned>>
    /\ UNCHANGED <<release, assets, fetched, filtered, createdCharts, disk>>
    /\ UNCHANGED <<mergeVars, engineVars, versionVars, templateVars, runVars, gitVars>>

\* the loop over manifests.Crds that merges into the primary overlay
ParametrizeCrdIntoPrimary ==
    /\ pc = "parametrize"
    /\ Len(pm.modifiedManifests) = Len(filtered.Manifests)
    /\ Len(pm.modifiedCrds) < Len(filtered.Crds)
    /\ LET crd == filtered.Crds[Len(pm.modifiedCrds) + 1]
           res == applyModifications(crd, release.Modifications)
       IN  /\ engineCalls' = Append(engineCalls, crd)
           /\ CASE res.status = "ok" ->
                     /\ pm' = [pm EXCEPT
                                 !.modifiedCrds = Append(@, res.doc),
                                 !.extractedValues = DeepMerge(@, res.values)]
                     /\ UNCHANGED <<pc, returned>>
                [] res.status = "error" ->
                     /\ returned' = [kind |-> "error"]
                     /\ pc' = "returned"
                     /\ UNCHANGED pm
                [] OTHER ->
                     /\ pc' = "crashed"
                     /\ UNCHANGED <<pm, returned>>
    /\ UNCHANGED <<release, assets, fetched, filtered, createdCharts, disk>>
    /\ UNCHANGED <<mergeVars, engineVars, versionVars, templateVars, runVars, gitVars>>

\* one iteration of the loop over manifests.Crds
ParametrizeCrd ==
    /\ pc = "parametrize"
    /\ Len(pm.modifiedManifests) = Len(filtered.Manifests)
    /\ Len(pm.modifiedCrds) < Len(filtered.Crds)
    /\ LET crd == filtered.Crds[Len(pm.modifiedCrds) + 1]
           res == applyModifications(crd, release.Modifications)
       IN  /\ engineCalls' = Append(engineCalls, crd)
           /\ CASE res.status = "ok" ->
                     /\ pm' = [pm EXCEPT
                                 !.modifiedCrds = Append(@, res.doc),
                                 !.extractedCrdValues = DeepMerge(@, res.values)]
                     /\ UNCHANGED <<pc, returned>>
                [] res.status = "error" ->
                     /\ returned' = [kind |-> "error"]
                     /\ pc' = "returned"
                     /\ UNCHANGED pm
                [] OTHER ->
                     /\ pc' = "crashed"
                     /\ UNCHANGED <<pm, returned>>
    /\ UNCHANGED <<release, assets, fetched, filtered, createdCharts, disk>>
    /\ UNCHANGED <<mergeVars, engineVars, versionVars, templateVars, runVars, gitVars>>

\* both loops are through: ParametrizeManifests returns the new Manifests
ParametrizeReturn ==
    /\ pc = "parametrize"
    /\ Len(pm.modifiedManifests) = Len(filtered.Manifests)
    /\ Len(pm.modifiedCrds) = Len(filtered.Crds)
    /\ returned' = [kind |-> "set",
                    set  |-> [Crds       |-> pm.modifiedCrds,
                              Manifests  |-> pm.modifiedManifests,
                              Version    |-> filtered.Version,
                              AppVersion |-> filtered.AppVersion,
                              Values     |-> pm.extractedValues,
                              CrdsValues |-> pm.extractedCrdValues]]
    /\ pc' = "returned"
    /\ UNCHANGED <<release, assets, fetched, filtered, pm, engineCalls, createdCharts, disk>>
    /\ UNCHANGED <<mergeVars, engineVars, versionVars, templateVars, runVars, gitVars>>

\* ProcessManifests returned an error or nil: the task sends nil
ReportNoPackage ==
    /\ pc = "returned"
    /\ returned.kind \in {"error", "nil"}
    /\ createdCharts' = Append(createdCharts, NoPackage)
    /\ pc' = "done"
    /\ UNCHANGED <<release, assets, fetched, filtered, pm, engineCalls, returned, disk>>
    /\ UNCHANGED <<mergeVars, engineVars, versionVars, templateVars, runVars, gitVars>>

\* createTemplates accepts every manifest of the list
AllHaveKind(list) == \A i \in 1..Len(list) : HasStringKind(list[i])

\* NewHelmChart on the chart directory dir: [status, dir].  chartutil.Create
\* overwrites the directory with the scaffold before createTemplates reads
\* the manifests; save writes the templates and the values before Lint runs.
NewHelmChart(dir, templates, vals, fails) ==
    IF fails = "create" THEN [status |-> "error", dir |-> dir]
    ELSE IF ~AllHaveKind(templates)
    THEN [status |-> "error", dir |-> ScaffoldChart]
    ELSE [status |-> IF fails = "lint" THEN "error" ELSE "ok",
          dir    |-> [state |-> "saved", templates |-> templates, values |-> vals]]

\* NewHelmCharts on the two chart directories: the CRD chart first, when the
\* set holds CRDs, then the main chart
NewHelmCharts(dirs, m, env) ==
    LET crdsChart == IF Len(m.Crds) > 0
                     THEN NewHelmChart(dirs.crds, m.Crds, m.CrdsValues, env.crds)
                     ELSE [status |-> "ok", dir |-> dirs.crds]
    IN  IF crdsChart.status # "ok"
        THEN [status |-> "error", disk |-> [dirs EXCEPT !.crds = crdsChart.dir]]
        ELSE LET mainChart == NewHelmChart(dirs.main, m.Manifests, m.Values, env.main)
             IN  [status |-> mainChart.status,
                  disk   |-> [main |-> mainChart.dir, crds |-> crdsChart.dir]]

\* NewHelmCharts returns an error (a manifest without a kind, a failed
\* chartutil.Create or lint): the task sends nil
SynthesizeFails ==
    /\ pc = "returned"
    /\ returned.kind = "set"
    /\ \E env \in Environments :
          LET made == NewHelmCharts(disk, returned.set, env)
          IN  /\ made.status = "error"
              /\ disk' = made.disk
    /\ createdCharts' = Append(createdCharts, NoPackage)
    /\ pc' = "done"
    /\ UNCHANGED <<release, assets, fetched, filtered, pm, engineCalls, returned>>
    /\ UNCHANGED <<mergeVars, engineVars, versionVars, templateVars, runVars, gitVars>>

\* NewHelmCharts builds the main chart and, with CRDs, the CRD chart
SynthesizeCharts ==
    /\ pc = "returned"
    /\ returned.kind = "set"
    /\ AllHaveKind(returned.set.Manifests)
    /\ AllHaveKind(returned.set.Crds)
    /\ \E env \in Environments :
          LET made == NewHelmCharts(disk, returned.set, env)
          IN  /\ made.status = "ok"
              /\ disk' = made.disk
    /\ createdCharts' =
          Append(createdCharts,
                 [pkg      |-> TRUE,
                  Chart    |-> [templates |-> returned.set.Manifests,
                                values    |-> returned.set.Values],
                  CrdChart |-> IF Len(returned.set.Crds) > 0
                               THEN [present   |-> TRUE,
                                     templates |-> returned.set.Crds,
                                     values    |-> returned.set.CrdsValues]
                               ELSE [present   |-> FALSE,
                                     templates |-> <<>>,
                                     values    |-> NoMap]])
    /\ pc' = "done"
    /\ UNCHANGED <<release, assets, fetched, filtered, pm, engineCalls, returned>>
    /\ UNCHANGED <<mergeVars, engineVars, versionVars, templateVars, runVars, gitVars>>

Next ==
    \/ FetchFails
    \/ FetchUpToDate
    \/ FetchNew
    \/ Filter
    \/ ParametrizeManifest
    \/ ParametrizeCrd
    \/ ParametrizeReturn
    \/ ReportNoPackage
    \/ SynthesizeFails
    \/ SynthesizeCharts

Spec == Init /\ [][Next]_vars

(***************************************************************************)
(* NewManifests alone, on the parsed documents of two assets.              *)
(***************************************************************************)
PartitionInit ==
    /\ release = [Drop |-> <<>>, Modifications |-> <<>>,
                  AddValues |-> NoMap, AddCrdValues |-> NoMap]
    /\ assets \in ParsedAssets
    /\ pc = "process"
    /\ fetched = NoManifests
    /\ filtered = NoManifests
    /\ pm = NoLocals
    /\ engineCalls = <<>>
    /\ returned = [kind |-> "none"]
    /\ createdCharts = <<>>
    /\ disk = [main |-> PreviousChart, crds |-> PreviousChart]
    /\ IdleOutside("task")

SpecPartition == PartitionInit /\ [][FetchNew]_vars

(***************************************************************************)
(* The version resolution of FetchManifests: takeNewerVersion, whose error *)
(* FetchManifests never reads, then the chart metadata written from the    *)
(* resolved version.                                                       *)
(***************************************************************************)
VersionInit ==
    /\ existingVersion \in ChartVersionStrings
    /\ remoteVersion \in VersionStrings
    /\ vpc = "resolve"
    /\ resolved = [status |-> "none"]
    /\ chartVersion = NotSemver
    /\ IdleOutside("version")

\* version, err := takeNewerVersion(existingVersion, *releaseVersion)
ResolveVersion ==
    /\ vpc = "resolve"
    /\ resolved' = takeNewerVersion(existingVersion, remoteVersion)
    /\ vpc' = IF resolved'.status = "panic" THEN "crashed" ELSE "download"
    /\ UNCHANGED <<existingVersion, remoteVersion, chartVersion>>
    /\ UNCHANGED <<mergeVars, engineVars, taskVars, templateVars, runVars, gitVars>>

\* NewManifests copies *version and updateChartManifest writes its String()
WriteChartVersion ==
    /\ vpc = "download"
    /\ IF resolved.version.nil
       THEN vpc' = "crashed" /\ UNCHANGED chartVersion
       ELSE vpc' = "written" /\ chartVersion' = String(resolved.version)
    /\ UNCHANGED <<existingVersion, remoteVersion, resolved>>
    /\ UNCHANGED <<mergeVars, engineVars, taskVars, templateVars, runVars, gitVars>>

VersionNext ==
    \/ ResolveVersion
    \/ WriteChartVersion

SpecVersion == VersionInit /\ [][VersionNext]_vars

(***************************************************************************)
(* createTemplates called twice on the same list of manifests, as two runs *)
(* of the program on the same release do.                                  *)
(***************************************************************************)
TemplateInit ==
    /\ newManifests \in SeqsUpTo(TemplateManifests, MaxManifests)
    /\ firstRun = [status |-> "none"]
    /\ secondRun = [status |-> "none"]
    /\ IdleOutside("template")

CreateTemplates ==
    /\ firstRun.status = "none"
    /\ \E order \in MapOrders(TemplateKinds(newManifests)) :
          firstRun' = createTemplates(Scaffold, newManifests, order)
    /\ UNCHANGED <<newManifests, secondRun>>
    /\ UNCHANGED <<mergeVars, engineVars, taskVars, versionVars, runVars, gitVars>>

CreateTemplatesAgain ==
    /\ firstRun.status # "none"
    /\ secondRun.status = "none"
    /\ \E order \in MapOrders(TemplateKinds(newManifests)) :
          secondRun' = createTemplates(Scaffold, newManifests, order)
    /\ UNCHANGED <<newManifests, firstRun>>
    /\ UNCHANGED <<mergeVars, engineVars, taskVars, versionVars, runVars, gitVars>>

TemplateNext ==
    \/ CreateTemplates
    \/ CreateTemplatesAgain

SpecTemplate == TemplateInit /\ [][TemplateNext]_vars

(***************************************************************************)
(* UpdateMode: the loop that starts one goroutine per release, the tasks,  *)
(* wg.Wait and close, and the sequential loop over createdCharts.  The     *)
(* tasks share the decoder of ChartModifier; the channel createdCharts has *)
(* room for one result per release.                                        *)
(***************************************************************************)
RunInit ==
    /\ offline \in BOOLEAN
    /\ withCrds \in [ReleaseIds -> BOOLEAN]
    /\ tpc = [r \in ReleaseIds |-> "idle"]
    /\ decoded = [r \in ReleaseIds |-> 0]
    /\ held = [r \in ReleaseIds |-> NoPackage]
    /\ sent = [r \in ReleaseIds |-> 0]
    /\ decoder = [reader |-> 0, readAnything |-> FALSE]
    /\ wg = 0
    /\ spawned = 0
    /\ mpc = "spawn"
    /\ received = 0
    /\ charts = NoPackage
    /\ gitOps = <<>>
    /\ IdleOutside("run")

Running == mpc \notin {"idle", "crashed", "returned nil", "returned err"}

\* wg.Add(1); go func() {...}()
MainSpawn ==
    /\ mpc = "spawn"
    /\ spawned < MaxReleases
    /\ spawned' = spawned + 1
    /\ wg' = wg + 1
    /\ tpc' = [tpc EXCEPT ![spawned + 1] = "process"]
    /\ UNCHANGED <<offline, withCrds, decoded, held, sent, decoder, mpc, received,
                   charts, gitOps, createdCharts>>
    /\ UNCHANGED <<release, assets, pc, fetched, filtered, pm, engineCalls, returned, disk>>
    /\ UNCHANGED <<mergeVars, engineVars, versionVars, templateVars, gitVars>>

\* wg.Wait() that returns once every task has been started
MainWaitForStarted ==
    /\ mpc = "spawn"
    /\ spawned = MaxReleases
    /\ mpc' = IF offline THEN "returned nil" ELSE "range"
    /\ UNCHANGED <<offline, withCrds, tpc, decoded, held, sent, decoder, wg, spawned,
                   received, charts, gitOps, createdCharts>>
    /\ UNCHANGED <<release, assets, pc, fetched, filtered, pm, engineCalls, returned, disk>>
    /\ UNCHANGED <<mergeVars, engineVars, versionVars, templateVars, gitVars>>

\* wg.Wait(); close(createdCharts); the offline return
MainWait ==
    /\ mpc = "spawn"
    /\ spawned = MaxReleases
    /\ wg = 0
    /\ mpc' = IF offline THEN "returned nil" ELSE "range"
    /\ UNCHANGED <<offline, withCrds, tpc, decoded, held, sent, decoder, wg, spawned,
                   received, charts, gitOps, createdCharts>>
    /\ UNCHANGED <<release, assets, pc, fetched, filtered, pm, engineCalls, returned, disk>>
    /\ UNCHANGED <<mergeVars, engineVars, versionVars, templateVars, gitVars>>

\* ProcessManifests returns an error (PeekVersions, the release metadata or
\* the assets fail, or the task's 30 s context is over) or (nil, nil)
TaskNoUpdate(r) ==
    /\ Running
    /\ tpc[r] = "process"
    /\ held' = [held EXCEPT ![r] = NoPackage]
    /\ tpc' = [tpc EXCEPT ![r] = "send"]
    /\ UNCHANGED <<offline, withCrds, decoded, sent, decoder, wg, spawned, mpc,
                   received, charts, gitOps, createdCharts>>
    /\ UNCHANGED <<release, assets, pc, fetched, filtered, pm, engineCalls, returned, disk>>
    /\ UNCHANGED <<mergeVars, engineVars, versionVars, templateVars, gitVars>>

\* FetchManifests returns the manifests of a new version
TaskFetchNew(r) ==
    /\ Running
    /\ tpc[r] = "process"
    /\ tpc' = [tpc EXCEPT ![r] = "init"]
    /\ UNCHANGED <<offline, withCrds, decoded, held, sent, decoder, wg, spawned, mpc,
                   received, charts, gitOps, createdCharts>>
    /\ UNCHANGED <<release, assets, pc, fetched, filtered, pm, engineCalls, returned, disk>>
    /\ UNCHANGED <<mergeVars, engineVars, versionVars, templateVars, gitVars>>

\* applyModifications: m.decoder.Init(bytes.NewReader(yamlBytes))
TaskInitDecoder(r) ==
    /\ Running
    /\ tpc[r] = "init"
    /\ decoder' = [reader |-> r, readAnything |-> FALSE]
    /\ tpc' = [tpc EXCEPT ![r] = "decode"]
    /\ UNCHANGED <<offline, withCrds, decoded, held, sent, wg, spawned, mpc,
                   received, charts, gitOps, createdCharts>>
    /\ UNCHANGED <<release, assets, pc, fetched, filtered, pm, engineCalls, returned, disk>>
    /\ UNCHANGED <<mergeVars, engineVars, versionVars, templateVars, gitVars>>

\* applyModifications: m.decoder.Decode() reads what the shared decoder was
\* last initialised with; a reader that was read to its end gives an error
TaskDecode(r) ==
    /\ Running
    /\ tpc[r] = "decode"
    /\ IF decoder.readAnything
       THEN /\ held' = [held EXCEPT ![r] = NoPackage]
            /\ tpc' = [tpc EXCEPT ![r] = "send"]
            /\ UNCHANGED <<decoded, decoder>>
       ELSE /\ decoded' = [decoded EXCEPT ![r] = decoder.reader]
            /\ decoder' = [decoder EXCEPT !.readAnything = TRUE]
            /\ tpc' = [tpc EXCEPT ![r] = "apply"]
            /\ UNCHANGED held
    /\ UNCHANGED <<offline, withCrds, sent, wg, spawned, mpc,
                   received, charts, gitOps, createdCharts>>
    /\ UNCHANGED <<release, assets, pc, fetched, filtered, pm, engineCalls, returned, disk>>
    /\ UNCHANGED <<mergeVars, engineVars, versionVars, templateVars, gitVars>>

\* a rule fails, or NewHelmCharts returns an error
TaskFails(r) ==
    /\ Running
    /\ tpc[r] = "apply"
    /\ held' = [held EXCEPT ![r] = NoPackage]
    /\ tpc' = [tpc EXCEPT ![r] = "send"]
    /\ UNCHANGED <<offline, withCrds, decoded, sent, decoder, wg, spawned, mpc,
                   received, charts, gitOps, createdCharts>>
    /\ UNCHANGED <<release, assets, pc, fetched, filtered, pm, engineCalls, returned, disk>>
    /\ UNCHANGED <<mergeVars, engineVars, versionVars, templateVars, gitVars>>

\* applyModifications panics: the process ends
TaskPanics(r) ==
    /\ Running
    /\ tpc[r] = "apply"
    /\ mpc' = "crashed"
    /\ UNCHANGED <<offline, withCrds, tpc, decoded, held, sent, decoder, wg, spawned,
                   received, charts, gitOps, createdCharts>>
    /\ UNCHANGED <<release, assets, pc, fetched, filtered, pm, engineCalls, returned, disk>>
    /\ UNCHANGED <<mergeVars, engineVars, versionVars, templateVars, gitVars>>

\* the rules are applied and NewHelmCharts writes the charts
TaskSynthesizes(r) ==
    /\ Running
    /\ tpc[r] = "apply"
    /\ held' = [held EXCEPT ![r] = Package(r, decoded[r], withCrds[r])]
    /\ tpc' = [tpc EXCEPT ![r] = "send"]
    /\ UNCHANGED <<offline, withCrds, decoded, sent, decoder, wg, spawned, mpc,
                   received, charts, gitOps, createdCharts>>
    /\ UNCHANGED <<release, assets, pc, fetched, filtered, pm, engineCalls, returned, disk>>
    /\ UNCHANGED <<mergeVars, engineVars, versionVars, templateVars, gitVars>>

\* createdCharts <- result, which waits while the channel is full; return
\* and the deferred wg.Done()
TaskSend(r) ==
    /\ Running
    /\ tpc[r] = "send"
    /\ Len(createdCharts) < MaxReleases
    /\ createdCharts' = Append(createdCharts, held[r])
    /\ sent' = [sent EXCEPT ![r] = @ + 1]
    /\ wg' = wg - 1
    /\ tpc' = [tpc EXCEPT ![r] = "done"]
    /\ UNCHANGED <<offline, withCrds, decoded, held, decoder, spawned, mpc,
                   received, charts, gitOps>>
    /\ UNCHANGED <<release, assets, pc, fetched, filtered, pm, engineCalls, returned, disk>>
    /\ UNCHANGED <<mergeVars, engineVars, versionVars, templateVars, gitVars>>

\* for charts := range createdCharts: the next result, nil results skipped;
\* the loop ends when the closed channel is empty
MainReceive ==
    /\ mpc = "range"
    /\ IF createdCharts = <<>>
       THEN /\ mpc' = "returned nil"
            /\ UNCHANGED <<received, charts, createdCharts>>
       ELSE /\ createdCharts' = Tail(createdCharts)
            /\ received' = received + 1
            /\ charts' = Head(createdCharts)
            /\ mpc' = IF Head(createdCharts).pkg THEN "exists" ELSE "range"
    /\ UNCHANGED <<offline, withCrds, tpc, decoded, held, sent, decoder, wg, spawned,
                   gitOps>>
    /\ UNCHANGED <<release, assets, pc, fetched, filtered, pm, engineCalls, returned, disk>>
    /\ UNCHANGED <<mergeVars, engineVars, versionVars, templateVars, gitVars>>

GitOp(op, r) == [op |-> op, release |-> r]

\* gitRepo.BranchExists(branch): an error, the branch exists, or it does not
MainBranchExists ==
    /\ mpc = "exists"
    /\ \E outcome \in {"error", "exists", "missing"} :
          /\ mpc' = CASE outcome = "error" -> "returned err"
                      [] outcome = "exists" -> "range"
                      [] OTHER -> "branch"
          /\ gitOps' = IF outcome = "exists"
                       THEN Append(gitOps, GitOp("skip", charts.name)) ELSE gitOps
    /\ UNCHANGED <<offline, withCrds, tpc, decoded, held, sent, decoder, wg, spawned,
                   received, charts, createdCharts>>
    /\ UNCHANGED <<release, assets, pc, fetched, filtered, pm, engineCalls, returned, disk>>
    /\ UNCHANGED <<mergeVars, engineVars, versionVars, templateVars, gitVars>>

\* one of CreateBranch, Push and CreatePr: on an error UpdateMode returns it
GitStep(at, op, next) ==
    /\ mpc = at
    /\ \E ok \in BOOLEAN :
          /\ mpc' = IF ok THEN next ELSE "returned err"
          /\ gitOps' = IF ok THEN Append(gitOps, GitOp(op, charts.name)) ELSE gitOps
    /\ UNCHANGED <<offline, withCrds, tpc, decoded, held, sent, decoder, wg, spawned,
                   received, charts, createdCharts>>
    /\ UNCHANGED <<release, assets, pc, fetched, filtered, pm, engineCalls, returned, disk>>
    /\ UNCHANGED <<mergeVars, engineVars, versionVars, templateVars, gitVars>>

MainCreateBranch == GitStep("branch", "branch", "commit")

\* gitRepo.Commit(charts) reads charts.CrdChart.Metadata.Name before it
\* looks whether CrdChart is nil
MainCommit ==
    IF mpc = "commit" /\ ~charts.crds
    THEN /\ mpc' = "crashed"
         /\ UNCHANGED <<offline, withCrds, tpc, decoded, held, sent, decoder, wg,
                        spawned, received, charts, gitOps, createdCharts>>
         /\ UNCHANGED <<release, assets, pc, fetched, filtered, pm, engineCalls, returned, disk>>
         /\ UNCHANGED <<mergeVars, engineVars, versionVars, templateVars, gitVars>>
    ELSE GitStep("commit", "commit", "push")

MainPush == GitStep("push", "push", "review")

MainCreatePr == GitStep("review", "review", "range")

RunNext ==
    \/ MainSpawn
    \/ MainWait
    \/ \E r \in ReleaseIds : TaskNoUpdate(r)
    \/ \E r \in ReleaseIds : TaskFetchNew(r)
    \/ \E r \in ReleaseIds : TaskInitDecoder(r)
    \/ \E r \in ReleaseIds : TaskDecode(r)
    \/ \E r \in ReleaseIds : TaskFails(r)
    \/ \E r \in ReleaseIds : TaskPanics(r)
    \/ \E r \in ReleaseIds : TaskSynthesizes(r)
    \/ \E r \in ReleaseIds : TaskSend(r)
    \/ MainReceive
    \/ MainBranchExists
    \/ MainCreateBranch
    \/ MainCommit
    \/ MainPush
    \/ MainCreatePr

SpecRun == RunInit /\ [][RunNext]_vars

\* the scheduler runs every goroutine that can take a step
SpecRunFair == SpecRun /\ WF_vars(RunNext)

(***************************************************************************)
(* One call of Client.Commit on a working tree.                            *)
(***************************************************************************)
GitInit ==
    /\ worktree \in Worktrees
    /\ helmized \in HelmizedManifests
    /\ commit = [status |-> "none"]
    /\ IdleOutside("git")

CallCommit ==
    /\ commit.status = "none"
    /\ commit' = Commit(worktree, helmized)
    /\ UNCHANGED <<worktree, helmized>>
    /\ UNCHANGED <<mergeVars, engineVars, taskVars, versionVars, templateVars, runVars>>

SpecGit == GitInit /\ [][CallCommit]_vars

(***************************************************************************)
(* Properties of DeepMerge                                                 *)
(***************************************************************************)
RECURSIVE ConflictPolicy(_, _, _)
\* c combines a and b key by key: b wins unless both values are mappings
ConflictPolicy(a, b, c) ==
    /\ DOMAIN c = (DOMAIN a) \cup (DOMAIN b)
    /\ \A k \in (DOMAIN a) \ (DOMAIN b) : c[k] = a[k]
    /\ \A k \in (DOMAIN b) \ (DOMAIN a) : c[k] = b[k]
    /\ \A k \in (DOMAIN a) \cap (DOMAIN b) :
          IF IsMap(a[k]) /\ IsMap(b[k])
          THEN /\ IsMap(c[k])
               /\ ConflictPolicy(a[k].m, b[k].m, c[k].m)
          ELSE c[k] = b[k]

\* C7: DeepMerge(a, b) has exactly the keys of a and b; a key of one side
\* only keeps that side's value; a key of both holds the recursive merge when
\* both values are mappings and b's value otherwise; a result always exists.
C7_ConflictPolicy ==
    mout.done => ConflictPolicy(ma, mb, mout.ab)

\* both kinds of conflict happen in one merge: mapping against mapping with
\* a clashing inner key, and mapping against scalar
C7_Witness ==
    /\ mout.done
    /\ \E k \in (DOMAIN ma) \cap (DOMAIN mb) :
          /\ IsMap(ma[k]) /\ IsMap(mb[k])
          /\ \E j \in (DOMAIN ma[k].m) \cap (DOMAIN mb[k].m) : ma[k].m[j] # mb[k].m[j]
    /\ \E k \in (DOMAIN ma) \cap (DOMAIN mb) : IsMap(ma[k]) /\ ~IsMap(mb[k])

\* C8 as stated: both groupings of a three-overlay fold agree.
C8_Associative ==
    mout.done => mout.left = mout.right

RECURSIVE MappingUnderScalar(_, _, _)
\* some key path holds a mapping in a and in c but a non-mapping in b
MappingUnderScalar(a, b, c) ==
    \E k \in (DOMAIN a) \cap (DOMAIN b) \cap (DOMAIN c) :
        /\ IsMap(a[k])
        /\ IsMap(c[k])
        /\ \/ ~IsMap(b[k])
           \/ MappingUnderScalar(a[k].m, b[k].m, c[k].m)

\* C8 amended: both groupings agree unless some key path holds a mapping in
\* a and in c and a non-mapping value in b.
C8_AssociativeUnlessShadowed ==
    (mout.done /\ ~MappingUnderScalar(ma, mb, mc)) => mout.left = mout.right

\* three overlays that all carry a mapping at one key with clashing inner
\* values, and a scalar against mapping conflict that is not shadowed
C8_Witness ==
    /\ mout.done
    /\ ~MappingUnderScalar(ma, mb, mc)
    /\ \E k \in (DOMAIN ma) \cap (DOMAIN mb) \cap (DOMAIN mc) :
          /\ IsMap(ma[k]) /\ IsMap(mb[k]) /\ IsMap(mc[k])
          /\ \E j \in (DOMAIN ma[k].m) \cap (DOMAIN mb[k].m) :
                /\ ma[k].m[j] # mb[k].m[j]
                /\ j \notin DOMAIN mc[k].m
    /\ \E k \in (DOMAIN ma) \cap (DOMAIN mb) \cap (DOMAIN mc) :
          ~IsMap(ma[k]) /\ IsMap(mb[k]) /\ IsMap(mc[k])

(***************************************************************************)
(* Properties of the rule engine                                           *)
(***************************************************************************)
\* the rule list up to and without its last rule
Front(rules) == SubSeq(rules, 1, Len(rules) - 1)

\* the candidate node and the overlay as the rules of a list leave them
EngineState(manifest, rules) ==
    ApplyFrom(manifest, rules, 1,
              [status    |-> "ok",
               candid    |-> Mapping(manifest),
               modified  |-> manifest,
               extracted |-> NoMap])

\* a pattern is set and well formed
Usable(pattern) == pattern # "" /\ pattern # "["

Malformed(pattern) == pattern = "["

KindMatches(manifest, pattern) ==
    HasStringKind(manifest) /\ MatchString(pattern, KindOf(manifest))

\* the rule's kind-match pattern does not match the kind of the manifest, or
\* its kind-reject pattern matches it
Skipped(manifest, rule) ==
    \/ Usable(rule.Kind) /\ ~KindMatches(manifest, rule.Kind)
    \/ /\ ~Malformed(rule.Kind)
       /\ Usable(rule.Reject) /\ KindMatches(manifest, rule.Reject)

\* both gates of the rule let the manifest through
Admitted(manifest, rule) ==
    /\ ~Malformed(rule.Kind) /\ ~Malformed(rule.Reject)
    /\ ~Skipped(manifest, rule)

RECURSIVE WithoutSkipped(_, _)
WithoutSkipped(manifest, rules) ==
    IF rules = <<>> THEN <<>>
    ELSE (IF Skipped(manifest, Head(rules)) THEN <<>> ELSE <<Head(rules)>>)
         \o WithoutSkipped(manifest, Tail(rules))

\* the expression of one rule on a document of its own
Rewrite(expr, document) ==
    LET result == EvaluateExpression(expr, Mapping(document))
    IN  IF ~result.ok THEN [status |-> "error", map |-> NoMap]
        ELSE resultToMap(result.nodes)

RECURSIVE Chain(_, _, _)
\* rule after rule, each on the document the rule before it returned
Chain(manifest, rules, current) ==
    IF rules = <<>> THEN [status |-> "ok", map |-> current]
    ELSE IF ~Admitted(manifest, Head(rules))
    THEN Chain(manifest, Tail(rules), current)
    ELSE LET next == Rewrite(Head(rules).Expression, current)
         IN  IF next.status # "ok" THEN next
             ELSE Chain(manifest, Tail(rules), next.map)

\* C1: the returned document is the result of the expressions of the
\* non-skipped rules applied in order, each to the output of the one before.
C1_Chaining ==
    applied.status = "ok" =>
        LET chained == Chain(doc, mods, doc)
        IN  chained.status = "ok" /\ applied.doc = chained.map

\* C2: a call gives the same document and overlay as the call without the
\* skipped rules; when every rule is skipped (or there is none) it returns
\* the manifest unchanged and an empty overlay.
C2_SkippedAreNoOps ==
    applied.status # "none" =>
        /\ applied = applyModifications(doc, WithoutSkipped(doc, mods))
        /\ (\A i \in 1..Len(mods) : Skipped(doc, mods[i])) =>
              applied = [status |-> "ok", doc |-> doc, values |-> NoMap]

\* a rule with a selector is skipped and a later rule still rewrites the
\* document and extracts
C2_Witness ==
    /\ applied.status = "ok"
    /\ Len(mods) = 2
    /\ Skipped(doc, mods[1]) /\ mods[1].ValuesSelector # <<>>
    /\ ~Skipped(doc, mods[2]) /\ mods[2].ValuesSelector # <<>>
    /\ applied.doc # doc
    /\ applied.values # NoMap

\* the last rule of the call is admitted and pairs every selector with a
\* placeholder
ExtractingCall ==
    /\ applied.status = "ok"
    /\ mods # <<>>
    /\ Admitted(doc, mods[Len(mods)])
    /\ mods[Len(mods)].ValuesSelector # <<>>
    /\ Len(FindAllValuesPaths(mods[Len(mods)].Expression))
          = Len(mods[Len(mods)].ValuesSelector)

C4_PairingMismatchIsError ==
    (/\ applied.status # "none"
     /\ mods # <<>>
     /\ applyModifications(doc, Front(mods)).status = "ok"
     /\ Admitted(doc, mods[Len(mods)])
     /\ mods[Len(mods)].ValuesSelector # <<>>
     /\ Len(FindAllValuesPaths(mods[Len(mods)].Expression))
           # Len(mods[Len(mods)].ValuesSelector))
    => applied.status = "error"

\* C5: a rule list that holds a malformed kind-match or kind-reject pattern
\* makes the call return an error, whatever the kind of the manifest.
C5_MalformedPatternIsError ==
    (/\ applied.status # "none"
     /\ mods # <<>>
     /\ applyModifications(doc, Front(mods)).status = "ok"
     /\ \/ Malformed(mods[Len(mods)].Kind)
        \/ Malformed(mods[Len(mods)].Reject))
    => applied.status = "error"

RECURSIVE GatedOnCurrent(_, _, _)
\* the loop over the rules with both gates of every rule tested on the
\* document as the rules before it left it
GatedOnCurrent(rules, i, st) ==
    IF i > Len(rules) \/ st.status # "ok" THEN st
    ELSE LET gate == Gate(st.modified, rules[i])
         IN  CASE gate = "error" -> [st EXCEPT !.status = "error"]
               [] gate = "skip"  -> GatedOnCurrent(rules, i + 1, st)
               [] OTHER -> GatedOnCurrent(rules, i + 1, ApplyRule(rules[i], st))

\* every rule of the list is an update expression
UpdatesOnly(rules) ==
    \A i \in 1..Len(rules) : rules[i].Expression.op = "assign"

\* C21: the kind-match and kind-reject patterns of every rule are tested on
\* the kind of the document as the preceding rules rewrote it: a call with
\* update rules gives the document and overlay of the loop that gates each
\* rule on the current document.
C21_GateOnCurrentKind ==
    (applied.status # "none" /\ UpdatesOnly(mods)) =>
        LET st == GatedOnCurrent(mods, 1,
                                 [status    |-> "ok",
                                  candid    |-> Mapping(doc),
                                  modified  |-> doc,
                                  extracted |-> NoMap])
        IN  /\ applied.status = st.status
            /\ st.status = "ok" =>
                  applied.doc = st.modified /\ applied.values = st.extracted

(***************************************************************************)
(* Properties of a release task                                            *)
(***************************************************************************)
\* the elements of a list
Elements(list) == {list[i] : i \in 1..Len(list)}

\* a and b are the same word but for letter case
EqualFold(a, b) ==
    \/ a = b
    \/ {a, b} \in {{"A", "a"}, {"B", "b"},
                   {"CustomResourceDefinition", "customresourcedefinition"}}

\* the kind of the document is, letter case aside, in the exclusion list
Excluded(document, drop) ==
    /\ HasStringKind(document)
    /\ \E i \in 1..Len(drop) : EqualFold(drop[i], KindOf(document))

\* the rules of the release fail on some document ParametrizeManifests is given
SomeDocumentFails ==
    /\ pc \in {"parametrize", "returned", "done", "crashed"}
    /\ fetched # NoManifests
    /\ \E d \in Elements(filtered.Manifests) \cup Elements(filtered.Crds) :
          applyModifications(d, release.Modifications).status = "error"

\* C6: when applyModifications fails on a document of the release,
\* ParametrizeManifests returns an error and never a document set, and the
\* task sends the no-package result and synthesizes no chart.
C6_AllOrNothing ==
    SomeDocumentFails =>
        /\ returned.kind \in {"none", "error"}
        /\ pc = "returned" => returned.kind = "error"
        /\ pc = "done" => createdCharts = <<NoPackage>>
        /\ pc # "done" => createdCharts = <<>>

\* the second manifest fails after the first was transformed, and the task
\* has sent its result
C6_Witness ==
    /\ SomeDocumentFails
    /\ pc = "done"
    /\ Len(pm.modifiedManifests) >= 1
    /\ pm.extractedValues # release.AddValues
    /\ createdCharts = <<NoPackage>>

\* C9: FilterManifests drops from the ordinary list exactly the documents
\* whose kind is, letter case aside, in the exclusion list; the others keep
\* their order, and every other field is passed through.
C9_FilterExact ==
    pc \in {"parametrize", "returned", "done", "crashed"} /\ fetched # NoManifests =>
        LET keep(d) == ~Excluded(d, release.Drop)
        IN  /\ filtered.Manifests = SelectSeq(fetched.Manifests, keep)
            /\ Len(filtered.Manifests)
                  = Len(fetched.Manifests)
                    - Cardinality({i \in 1..Len(fetched.Manifests) :
                                      Excluded(fetched.Manifests[i], release.Drop)})
            /\ filtered.Crds = fetched.Crds
            /\ filtered.Version = fetched.Version
            /\ filtered.AppVersion = fetched.AppVersion
            /\ filtered.Values = fetched.Values
            /\ filtered.CrdsValues = fetched.CrdsValues

\* a document is dropped for a kind that differs in letter case from the
\* exclusion entry, between two documents that stay, one without a kind
C9_Witness ==
    /\ pc = "parametrize"
    /\ Len(fetched.Manifests) = 3
    /\ Len(filtered.Manifests) = 2
    /\ Excluded(fetched.Manifests[2], release.Drop)
    /\ KindOf(fetched.Manifests[2]) \notin Elements(release.Drop)
    /\ \E i \in {1, 3} : ~HasStringKind(fetched.Manifests[i])

\* C10: no document whose kind is in the exclusion list, ordinary or schema
\* definition, is passed to applyModifications or returned.
C10_ExcludedNeverReachEngine ==
    /\ \A i \in 1..Len(engineCalls) : ~Excluded(engineCalls[i], release.Drop)
    /\ returned.kind = "set" =>
          /\ \A d \in Elements(returned.set.Manifests) : ~Excluded(d, release.Drop)
          /\ \A d \in Elements(returned.set.Crds) : ~Excluded(d, release.Drop)

RECURSIVE OverlayFold(_, _, _)
\* the left fold of DeepMerge over an overlay and the overlays that the
\* rules extract from the documents, in the order of the list
OverlayFold(overlay, documents, rules) ==
    IF documents = <<>> THEN overlay
    ELSE OverlayFold(DeepMerge(overlay,
                               applyModifications(Head(documents), rules).values),
                     Tail(documents), rules)

\* C23: after ParametrizeManifests succeeds the primary overlay is the left
\* fold of DeepMerge over the pre-seeded primary overlay and the overlays of
\* the ordinary documents in processing order, the schema-definition
\* overlay is the same fold over the pre-seeded schema-definition overlay
\* and the schema-definition documents only, and the input set with its
\* pre-seeded overlays is as it was passed in.
C23_OverlayAccumulation ==
    returned.kind = "set" =>
        /\ returned.set.Values =
              OverlayFold(release.AddValues, filtered.Manifests, release.Modifications)
        /\ returned.set.CrdsValues =
              OverlayFold(release.AddCrdValues, filtered.Crds, release.Modifications)
        /\ filtered = FilterManifests(fetched, release.Drop)
        /\ filtered.Values = release.AddValues
        /\ filtered.CrdsValues = release.AddCrdValues

\* two ordinary documents extract different values to the path of a
\* pre-seeded value, the later one is in the overlay, and a schema definition
\* has extracted into the schema-definition overlay
C23_Witness ==
    /\ returned.kind = "set"
    /\ Len(filtered.Manifests) = 2
    /\ Len(filtered.Crds) = 1
    /\ release.AddValues = [p |-> Mapping([q |-> Scalar("seed")])]
    /\ applyModifications(filtered.Manifests[1], release.Modifications).values
          = [p |-> Mapping([q |-> Scalar("c")])]
    /\ applyModifications(filtered.Manifests[2], release.Modifications).values
          = [p |-> Mapping([q |-> Scalar("d")])]
    /\ returned.set.Values = [p |-> Mapping([q |-> Scalar("d")])]
    /\ returned.set.CrdsValues =
          [r |-> Scalar("seed"), p |-> Mapping([q |-> Scalar("c")])]

\* C24: the overlays that ParametrizeManifests returns do not depend on the
\* order in which NewManifests visits the assets: whichever order the range
\* over the asset map takes, the same release input gives the same primary
\* and schema-definition overlays.
C24_OrderIndependentOverlays ==
    returned.kind = "set" =>
        \A order \in AssetOrders :
            LET other == FilterManifests(
                            NewManifests(assets, order, "1.3.0", "v1.3.0",
                                         release.AddValues, release.AddCrdValues),
                            release.Drop)
            IN  /\ returned.set.Values =
                      OverlayFold(other.Values, other.Manifests, release.Modifications)
                /\ returned.set.CrdsValues =
                      OverlayFold(other.CrdsValues, other.Crds, release.Modifications)

\* C22: when an ordinary document of the returned set has no string kind,
\* the synthesis of the charts sends the no-package result and leaves both
\* chart directories as they were: nothing of the release is written or
\* overwritten, the CRD chart included.
C22_NoPartialOutput ==
    [][(/\ pc = "returned"
        /\ returned.kind = "set"
        /\ ~AllHaveKind(returned.set.Manifests))
       => (createdCharts' = <<NoPackage>> /\ disk' = disk)]_vars

(***************************************************************************)
(* Version resolution.                                                     *)
(***************************************************************************)
\* the rank of a pre-release among the versions of one number triple
PreRank(pre) == CASE pre = "" -> 2 [] pre = "rc1" -> 1 [] OTHER -> 0

\* the position of a version in semantic-version precedence
Precedence(v) ==
    ((v.major * (MaxPart + 1) + v.minor) * (MaxPart + 1) + v.patch) * 3 + PreRank(v.pre)

Resolved == vpc \in {"download", "written", "crashed"}

ExistingParses == ~NewVersion(existingVersion).err

RemoteParses == ~NewVersion(remoteVersion).err

\* C11: for a valid existing version, takeNewerVersion returns the existing
\* version when the remote tag does not parse and otherwise the greater of
\* the two, without an error and without ending the release; the version
\* written to the chart is never lower than the existing one.
C11_NeverRegresses ==
    Resolved /\ ExistingParses =>
        LET existing == NewVersion(existingVersion).v
            remote   == NewVersion(remoteVersion).v
        IN  /\ vpc # "crashed"
            /\ resolved.status = "ok"
            /\ ~resolved.version.nil
            /\ ~RemoteParses => resolved.version = existing
            /\ RemoteParses =>
                  /\ resolved.version \in {existing, remote}
                  /\ Precedence(resolved.version) >= Precedence(remote)
            /\ Precedence(resolved.version) >= Precedence(existing)
            /\ vpc = "written" =>
                  Precedence(NewVersion(chartVersion).v) >= Precedence(existing)

\* 1.2.0 against a tag that is no version: the chart keeps 1.2.0
C11_Witness ==
    /\ vpc = "written"
    /\ existingVersion = VersionString("", <<1, 2, 0>>, "", "")
    /\ remoteVersion = NotSemver
    /\ chartVersion = VersionString("", <<1, 2, 0>>, "", "")

\* C12: when the remote tag parses and is equal to the existing version in
\* precedence, the resolved version reads as the existing one.
C12_TiesKeepExisting ==
    Resolved /\ ExistingParses /\ RemoteParses
    /\ Precedence(NewVersion(remoteVersion).v) = Precedence(NewVersion(existingVersion).v)
    => /\ resolved.status = "ok"
       /\ String(resolved.version) = String(NewVersion(existingVersion).v)

(***************************************************************************)
(* Template units.                                                         *)
(***************************************************************************)
\* the manifests of a unit's Data, without the boundary markers
UnitManifests(data) ==
    LET docs == SelectSeq(data, LAMBDA c : ~c.marker)
    IN  [i \in DOMAIN docs |-> docs[i].yaml]

\* manifest, marker, manifest, ..., manifest
WellSeparated(data) ==
    /\ Len(data) % 2 = 1
    /\ \A i \in DOMAIN data : data[i].marker <=> (i % 2 = 0)

\* the manifests of the list whose kind is written exactly as k
OfKind(list, k) == SelectSeq(list, LAMBDA d : HasStringKind(d) /\ KindOf(d) = k)

\* C13: a createTemplates that succeeds leaves exactly one unit per kind as
\* written; the unit holds the manifests of that kind in input order,
\* separated by boundary markers, and is named templates/<lower-cased
\* kind>.yaml; every manifest is in exactly one unit.
C13_OneUnitPerKind ==
    firstRun.status = "ok" =>
        LET units == firstRun.Templates
            kinds == TemplateKinds(newManifests)
        IN  /\ Len(units) = Cardinality(kinds)
            /\ \A k \in kinds :
                  Cardinality({i \in DOMAIN units :
                                  UnitManifests(units[i].Data) = OfKind(newManifests, k)}) = 1
            /\ \A i \in DOMAIN units :
                  /\ WellSeparated(units[i].Data)
                  /\ \E k \in kinds :
                        /\ UnitManifests(units[i].Data) = OfKind(newManifests, k)
                        /\ units[i].Name.dir = "templates"
                        /\ units[i].Name.ext = "yaml"
                        /\ units[i].Name.base =
                              (IF k = "A" THEN "a" ELSE IF k = "B" THEN "b" ELSE k)
            /\ \A j \in DOMAIN newManifests :
                  Cardinality({<<i, n>> \in (DOMAIN units) \X (1..(2 * MaxManifests + 1)) :
                                  /\ n \in DOMAIN units[i].Data
                                  /\ units[i].Data[n] = Marshal(newManifests[j])})
                  = Cardinality({n \in DOMAIN newManifests : newManifests[n] = newManifests[j]})

\* kinds A, a, A: two units, the first and third manifest in one of them
C13_Witness ==
    /\ firstRun.status = "ok"
    /\ Len(newManifests) = 3
    /\ KindOf(newManifests[1]) = "A"
    /\ KindOf(newManifests[2]) = "a"
    /\ KindOf(newManifests[3]) = "A"
    /\ newManifests[1] # newManifests[3]
    /\ Len(firstRun.Templates) = 2

\* C14: two executions of createTemplates on the same list produce the
\* units in the same order.
C14_StableOrder ==
    firstRun.status = "ok" /\ secondRun.status = "ok" =>
        firstRun.Templates = secondRun.Templates

\* C25: no two template units that createTemplates produces have the same
\* file name, also when their kinds differ only in letter case.
C25_UniqueTemplateNames ==
    firstRun.status = "ok" =>
        \A i, j \in DOMAIN firstRun.Templates :
            firstRun.Templates[i].Name = firstRun.Templates[j].Name => i = j

(***************************************************************************)
(* The partition of NewManifests.                                          *)
(***************************************************************************)
\* how often document d occurs in the list
Occurrences(list, d) == Cardinality({i \in DOMAIN list : list[i] = d})

\* a string kind that starts with CustomResourceDefinition
NamesCrd(d) ==
    /\ "kind" \in DOMAIN d
    /\ d.kind.t = "s"
    /\ d.kind.s \in {"CustomResourceDefinition", "CustomResourceDefinitionList"}

\* C15: NewManifests puts a document in Crds iff its kind is a string that
\* starts with CustomResourceDefinition and in Manifests otherwise; every
\* parsed document is in exactly one of the two lists, as often as it was
\* parsed.
C15_Partition ==
    pc = "filter" =>
        LET parsed == assets[AssetNames[1]] \o assets[AssetNames[2]]
        IN  /\ \A i \in DOMAIN fetched.Crds : NamesCrd(fetched.Crds[i])
            /\ \A i \in DOMAIN fetched.Manifests : ~NamesCrd(fetched.Manifests[i])
            /\ Len(fetched.Crds) + Len(fetched.Manifests) = Len(parsed)
            /\ \A d \in Elements(parsed) :
                  Occurrences(fetched.Crds, d) + Occurrences(fetched.Manifests, d)
                  = Occurrences(parsed, d)

\* a CustomResourceDefinitionList among a lower-case kind and a document
\* without a kind
C15_Witness ==
    /\ pc = "filter"
    /\ Len(fetched.Crds) = 1
    /\ KindOf(fetched.Crds[1]) = "CustomResourceDefinitionList"
    /\ Len(fetched.Manifests) = 2
    /\ \E i \in 1..2 : ~HasStringKind(fetched.Manifests[i])
    /\ \E i \in 1..2 : HasStringKind(fetched.Manifests[i])
                       /\ KindOf(fetched.Manifests[i]) = "customresourcedefinition"

(***************************************************************************)
(* UpdateMode.                                                             *)
(***************************************************************************)
PastBarrier == mpc \in {"range", "exists", "branch", "commit", "push", "review",
                        "returned nil", "returned err"}

C17_Isolation ==
    /\ \A r \in ReleaseIds : tpc[r] = "apply" => decoded[r] = r
    /\ \A r \in ReleaseIds : held[r].pkg => held[r].content = r
    /\ \A i \in DOMAIN createdCharts :
          createdCharts[i].pkg => createdCharts[i].content = createdCharts[i].name

\* release r's branch was found to exist, or r was taken through branch
\* creation, commit, push and review request in that order
Handled(r) ==
    \/ \E i \in DOMAIN gitOps : gitOps[i] = GitOp("skip", r)
    \/ \E i, j, k, l \in DOMAIN gitOps :
          /\ i < j /\ j < k /\ k < l
          /\ gitOps[i] = GitOp("branch", r)
          /\ gitOps[j] = GitOp("commit", r)
          /\ gitOps[k] = GitOp("push", r)
          /\ gitOps[l] = GitOp("review", r)

\* C18: when not offline, every release whose task sent a package is
\* eventually skipped for its existing branch or taken through branch
\* creation, commit, push and review request, whatever happens to the
\* other releases and in its own git steps.
C18_PackagesEventuallyHandled ==
    \A r \in ReleaseIds :
        (~offline /\ tpc[r] = "done" /\ held[r].pkg) ~> Handled(r)

(***************************************************************************)
(* Commit.                                                                 *)
(***************************************************************************)
\* the files below the main chart's and the CRD chart's directory
OwnFiles == {FooChartFile, FooCrdsChartFile}

\* C19: the commit holds changes only to files below the package's two
\* chart directories, and every other file keeps its content.
C19_CommitsOnlyOwnFiles ==
    commit.status = "ok" =>
        /\ commit.changed \subseteq OwnFiles
        /\ \A f \in TreeFiles \ OwnFiles :
              /\ commit.tree[f].work = worktree[f].work
              /\ commit.tree[f].head = worktree[f].head

\* C20: Commit completes for a package without a CRD chart.
C20_CommitsWithoutCrdChart ==
    commit.status # "none" /\ ~helmized.CrdChart.present => commit.status = "ok"

=============================================================================
